---- MODULE Spec2Model ----
(***************************************************************************)
(* A model of the VIT GPA calculator: the grade ledger (CGPA, grade        *)
(* distribution), the what-if simulators with their interactive loops, and *)
(* the transcript normalisation (clean_table_data).                        *)
(*                                                                         *)
(* Python dictionaries are objects of a heap: a variable holds a reference *)
(* (an index into heap), dict.copy() allocates a new object, and an        *)
(* assignment to a key changes the object every holder of the reference    *)
(* sees.  A CGPA is kept as the exact ratio <<points, credits>>.           *)
(***************************************************************************)
EXTENDS Integers, Sequences, FiniteSets, TLC

VARIABLES
    records,                \* clean_df: the normalised course records
    heap,                   \* the dict objects alive between two prompts
    original_dist,          \* main: reference to the original distribution
    improved_distribution,  \* main: reference
    future_distribution,    \* main: reference
    current_cgpa,           \* main: <<points, credits>>
    pc,                     \* which prompt the program waits at
    improvement_changes,    \* simulate_grade_improvement: the chain
    future_changes,         \* simulate_future_courses: the chain
    accepted,               \* the operations answered with "added successfully"
    last,                   \* what the last answered prompt did
    sessions,               \* simulator sessions opened so far
    raw_df,                 \* clean_table_data: the extracted table
    clean_df,               \* what clean_table_data of main_advanced.py returns
    clean_df_v1             \* what clean_table_data of 1.py returns

vars == <<records, heap, original_dist, improved_distribution,
          future_distribution, current_cgpa, pc, improvement_changes,
          future_changes, accepted, last, sessions, raw_df, clean_df,
          clean_df_v1>>

ledgerVars == <<records, heap, original_dist, improved_distribution,
                future_distribution, current_cgpa, improvement_changes,
                future_changes, accepted, sessions>>

tableVars == <<raw_df, clean_df, clean_df_v1>>

(***************************************************************************)
(* Bounds of the model.                                                    *)
(***************************************************************************)
MaxRecords == 2          \* records of a transcript (ledger specification)
MaxRecordCredits == 2    \* credits of one record: 0..MaxRecordCredits
MaxChain == 2            \* operations entered in one simulator session
MaxTypedCredits == 1     \* credits typed at a prompt: -1..MaxTypedCredits
MaxSessions == 2         \* simulator sessions opened from the main menu
MaxRows == 3             \* rows of an extracted table
MaxCheckedCredits == 3   \* credits of the transfers the properties range over
MaxTransfers == 1        \* simulate_improvement calls on one distribution

(***************************************************************************)
(* The grade scale.                                                        *)
(***************************************************************************)
AllGrades == {"S", "A", "B", "C", "D", "E", "F", "P"}

grade_points ==
    [g \in {"S", "A", "B", "C", "D", "E", "F"} |->
        CASE g = "S" -> 10 [] g = "A" -> 9 [] g = "B" -> 8 [] g = "C" -> 7
          [] g = "D" -> 6 [] g = "E" -> 5 [] g = "F" -> 0]

grade_points_v1 ==
    [g \in AllGrades |->
        CASE g = "S" -> 10 [] g = "A" -> 9 [] g = "B" -> 8 [] g = "C" -> 7
          [] g = "D" -> 6 [] g = "E" -> 5 [] g = "F" -> 0 [] g = "P" -> 0]

(***************************************************************************)
(* Dictionaries: functions from the keys present to their values.          *)
(***************************************************************************)
EmptyDict == [g \in {} |-> 0]

DictGet(d, k, default) == IF k \in DOMAIN d THEN d[k] ELSE default

DictSet(d, k, v) == [x \in (DOMAIN d) \cup {k} |-> IF x = k THEN v ELSE d[x]]

RECURSIVE SumOver(_, _)
SumOver(d, keys) ==
    IF keys = {} THEN 0
    ELSE LET k == CHOOSE x \in keys : TRUE
         IN d[k] + SumOver(d, keys \ {k})

DictSum(d) == SumOver(d, DOMAIN d)

\* dict.copy(): a new object with the same items
dict_copy(h, r) == [heap |-> Append(h, h[r]), ref |-> Len(h) + 1]

(***************************************************************************)
(* The ledger.                                                             *)
(***************************************************************************)
RECURSIVE SumCredits(_, _)
SumCredits(df, grades) ==
    IF df = <<>> THEN 0
    ELSE (IF Head(df).grade \in grades THEN Head(df).credits ELSE 0)
         + SumCredits(Tail(df), grades)

RECURSIVE SumPoints(_, _)
SumPoints(df, points) ==
    IF df = <<>> THEN 0
    ELSE (IF Head(df).grade \in DOMAIN points
          THEN Head(df).credits * points[Head(df).grade] ELSE 0)
         + SumPoints(Tail(df), points)

Zero == <<0, 1>>

\* two ratios are the same number
RatEq(a, b) == a[1] * b[2] = b[1] * a[2]

calculate_current_cgpa_with_P(df) ==
    LET total_credits == SumCredits(df, AllGrades)
        total_points == SumPoints(df, grade_points)
    IN IF total_credits > 0 THEN <<total_points, total_credits>> ELSE Zero

calculate_current_cgpa(df) ==
    LET total_credits == SumCredits(df, AllGrades \ {"P"})
        total_points == SumPoints(df, grade_points)
    IN IF total_credits > 0 THEN <<total_points, total_credits>> ELSE Zero

\* a ledger that keeps a key for every grade of the scale, credits or not
get_grade_distribution_all_keys(df) ==
    [grade \in DOMAIN grade_points |-> SumCredits(df, {grade})]

get_grade_distribution(df) ==
    [grade \in {g \in DOMAIN grade_points : SumCredits(df, {g}) > 0} |->
        SumCredits(df, {grade})]

\* 1.py: its grade_points has the key P
get_grade_distribution_v1(df) ==
    [grade \in {g \in DOMAIN grade_points_v1 : SumCredits(df, {g}) > 0} |->
        SumCredits(df, {grade})]

RECURSIVE PointsOver(_, _)
PointsOver(d, keys) ==
    IF keys = {} THEN 0
    ELSE LET k == CHOOSE x \in keys : TRUE
         IN d[k] * grade_points[k] + PointsOver(d, keys \ {k})

calculate_cgpa_from_distribution(distribution) ==
    LET total_points == PointsOver(distribution, DOMAIN distribution)
        total_credits == DictSum(distribution)
    IN IF total_credits > 0 THEN <<total_points, total_credits>> ELSE Zero

(***************************************************************************)
(* The simulation engine.  A call returns the heap it leaves behind, how   *)
(* it ended ("ok", or the exception it raised), the index of the change    *)
(* that raised, and the reference it returned (0: none).                   *)
(***************************************************************************)
ValueErrors == {"InvalidGrade", "InsufficientCredits", "InvalidCredits", "BadNumber"}

Raise(h, status, at) == [heap |-> h, status |-> status, at |-> at, ret |-> 0]

Return(h, ref) == [heap |-> h, status |-> "ok", at |-> 0, ret |-> ref]

\* the loop of simulate_improvement, on the object new_distribution;
\* done counts the changes already applied
RECURSIVE improvement_loop(_, _, _, _)
improvement_loop(h, new_distribution, changes, done) ==
    IF changes = <<>> THEN Return(h, new_distribution)
    ELSE LET from_grade == Head(changes)[1]
             to_grade == Head(changes)[2]
             credits == Head(changes)[3]
             d == h[new_distribution]
         IN IF from_grade \notin DOMAIN grade_points
                \/ to_grade \notin DOMAIN grade_points
            THEN Raise(h, "InvalidGrade", done + 1)
            ELSE IF credits > DictGet(d, from_grade, 0)
            THEN Raise(h, "InsufficientCredits", done + 1)
            ELSE IF from_grade \notin DOMAIN d
            THEN Raise(h, "KeyError", done + 1)
            ELSE LET d1 == DictSet(d, from_grade, d[from_grade] - credits)
                     d2 == DictSet(d1, to_grade, DictGet(d1, to_grade, 0) + credits)
                 IN improvement_loop([h EXCEPT ![new_distribution] = d2],
                                     new_distribution, Tail(changes), done + 1)

\* the same loop without the balance check
RECURSIVE improvement_loop_unchecked(_, _, _, _)
improvement_loop_unchecked(h, new_distribution, changes, done) ==
    IF changes = <<>> THEN Return(h, new_distribution)
    ELSE LET from_grade == Head(changes)[1]
             to_grade == Head(changes)[2]
             credits == Head(changes)[3]
             d == h[new_distribution]
         IN IF from_grade \notin DOMAIN grade_points
                \/ to_grade \notin DOMAIN grade_points
            THEN Raise(h, "InvalidGrade", done + 1)
            ELSE IF from_grade \notin DOMAIN d
            THEN Raise(h, "KeyError", done + 1)
            ELSE LET d1 == DictSet(d, from_grade, d[from_grade] - credits)
                     d2 == DictSet(d1, to_grade, DictGet(d1, to_grade, 0) + credits)
                 IN improvement_loop_unchecked([h EXCEPT ![new_distribution] = d2],
                                               new_distribution, Tail(changes), done + 1)

simulate_improvement_unchecked(h, distribution, changes) ==
    LET c == dict_copy(h, distribution)
    IN improvement_loop_unchecked(c.heap, c.ref, changes, 0)

\* to_grade's balance is overwritten by the credits, not increased by them
RECURSIVE improvement_loop_lossy(_, _, _, _)
improvement_loop_lossy(h, new_distribution, changes, done) ==
    IF changes = <<>> THEN Return(h, new_distribution)
    ELSE LET from_grade == Head(changes)[1]
             to_grade == Head(changes)[2]
             credits == Head(changes)[3]
             d == h[new_distribution]
         IN IF from_grade \notin DOMAIN grade_points
                \/ to_grade \notin DOMAIN grade_points
            THEN Raise(h, "InvalidGrade", done + 1)
            ELSE IF credits > DictGet(d, from_grade, 0)
            THEN Raise(h, "InsufficientCredits", done + 1)
            ELSE IF from_grade \notin DOMAIN d
            THEN Raise(h, "KeyError", done + 1)
            ELSE LET d1 == DictSet(d, from_grade, d[from_grade] - credits)
                     d2 == DictSet(d1, to_grade, credits)
                 IN improvement_loop_lossy([h EXCEPT ![new_distribution] = d2],
                                           new_distribution, Tail(changes), done + 1)

simulate_improvement_lossy(h, distribution, changes) ==
    LET c == dict_copy(h, distribution)
    IN improvement_loop_lossy(c.heap, c.ref, changes, 0)

\* a loop left after its first change
simulate_improvement_first_only(h, distribution, changes) ==
    LET c == dict_copy(h, distribution)
    IN improvement_loop(c.heap, c.ref,
                        IF changes = <<>> THEN <<>> ELSE <<Head(changes)>>, 0)

simulate_improvement(h, distribution, changes) ==
    LET c == dict_copy(h, distribution)
    IN improvement_loop(c.heap, c.ref, changes, 0)

\* simulate_and_print: one simulate_improvement call per change, each on the
\* result of the one before; cgpa is the projected CGPA it returns with ret
RECURSIVE and_print_loop(_, _, _, _)
and_print_loop(h, new_distribution, simulation_changes, done) ==
    IF simulation_changes = <<>> THEN Return(h, new_distribution)
    ELSE LET r == simulate_improvement(h, new_distribution, <<Head(simulation_changes)>>)
         IN IF r.status # "ok" THEN Raise(r.heap, r.status, done + 1)
            ELSE and_print_loop(r.heap, r.ret, Tail(simulation_changes), done + 1)

\* every change applied to the original distribution, not to the result so far
RECURSIVE and_print_loop_unthreaded(_, _, _, _, _)
and_print_loop_unthreaded(h, first, new_distribution, simulation_changes, done) ==
    IF simulation_changes = <<>> THEN Return(h, new_distribution)
    ELSE LET r == simulate_improvement(h, first, <<Head(simulation_changes)>>)
         IN IF r.status # "ok" THEN Raise(r.heap, r.status, done + 1)
            ELSE and_print_loop_unthreaded(r.heap, first, r.ret,
                                           Tail(simulation_changes), done + 1)

simulate_and_print_unthreaded(h, original_distribution, simulation_changes) ==
    LET c == dict_copy(h, original_distribution)
    IN and_print_loop_unthreaded(c.heap, c.ref, c.ref, simulation_changes, 0)

simulate_and_print(h, original_distribution, simulation_changes) ==
    LET c == dict_copy(h, original_distribution)
    IN and_print_loop(c.heap, c.ref, simulation_changes, 0)

\* CGPACalculator.simulate_future_courses (the method)
RECURSIVE future_loop(_, _, _, _)
future_loop(h, new_distribution, future_changes_, done) ==
    IF future_changes_ = <<>> THEN Return(h, new_distribution)
    ELSE LET grade == Head(future_changes_)[1]
             credits == Head(future_changes_)[2]
             d == h[new_distribution]
         IN IF grade \notin DOMAIN grade_points
            THEN Raise(h, "InvalidGrade", done + 1)
            ELSE future_loop(
                     [h EXCEPT ![new_distribution] =
                         DictSet(d, grade, DictGet(d, grade, 0) + credits)],
                     new_distribution, Tail(future_changes_), done + 1)

\* the additions written into the caller's dictionary
simulate_future_courses_in_place(h, distribution, future_changes_) ==
    future_loop(h, distribution, future_changes_, 0)

simulate_future_courses(h, distribution, future_changes_) ==
    LET c == dict_copy(h, distribution)
    IN future_loop(c.heap, c.ref, future_changes_, 0)

\* 1.py: simulate_improvement, which returns the new CGPA only (cgpa)
RECURSIVE improvement_loop_v1(_, _, _, _)
improvement_loop_v1(h, new_distribution, changes, done) ==
    IF changes = <<>> THEN Return(h, new_distribution)
    ELSE LET from_grade == Head(changes)[1]
             to_grade == Head(changes)[2]
             credits == Head(changes)[3]
             d == h[new_distribution]
         IN IF from_grade \notin DOMAIN grade_points_v1
                \/ to_grade \notin DOMAIN grade_points_v1
            THEN Raise(h, "InvalidGrade", done + 1)
            ELSE IF credits <= 0
            THEN Raise(h, "InvalidCredits", done + 1)
            ELSE IF credits > DictGet(d, from_grade, 0)
            THEN Raise(h, "InsufficientCredits", done + 1)
            ELSE LET d1 == DictSet(d, from_grade, DictGet(d, from_grade, 0) - credits)
                     d2 == DictSet(d1, to_grade, DictGet(d1, to_grade, 0) + credits)
                 IN improvement_loop_v1([h EXCEPT ![new_distribution] = d2],
                                        new_distribution, Tail(changes), done + 1)

simulate_improvement_v1(h, distribution, changes) ==
    LET c == dict_copy(h, distribution)
    IN improvement_loop_v1(c.heap, c.ref, changes, 0)

\* 1.py: the CGPA simulate_improvement computes from new_distribution, every
\* key of it counted in total_credits
RECURSIVE PointsOver_v1(_, _)
PointsOver_v1(d, keys) ==
    IF keys = {} THEN 0
    ELSE LET k == CHOOSE x \in keys : TRUE
         IN d[k] * grade_points_v1[k] + PointsOver_v1(d, keys \ {k})

new_cgpa_v1(new_distribution) ==
    LET total_points == PointsOver_v1(new_distribution, DOMAIN new_distribution)
        total_credits == DictSum(new_distribution)
    IN IF total_credits > 0 THEN <<total_points, total_credits>> ELSE Zero

\* 1.py: what a call of simulate_improvement gives its caller
simulate_improvement_returns_v1(h, distribution, changes) ==
    LET r == simulate_improvement_v1(h, distribution, changes)
    IN IF r.status = "ok"
       THEN [status |-> "ok", cgpa |-> new_cgpa_v1(r.heap[r.ret])]
       ELSE [status |-> r.status, cgpa |-> Zero]

\* main_advanced.py: what a call of calculate_cgpa_from_distribution gives its
\* caller; self.grade_points[grade] raises KeyError for a key that is no grade
\* of grade_points
calculate_cgpa_from_distribution_returns(distribution) ==
    IF DOMAIN distribution \subseteq DOMAIN grade_points
    THEN [status |-> "ok", cgpa |-> calculate_cgpa_from_distribution(distribution)]
    ELSE [status |-> "KeyError", cgpa |-> Zero]

(***************************************************************************)
(* Transcript normalisation: clean_table_data.                             *)
(*                                                                         *)
(* A raw table is a sequence of rows of Width text cells; NaN is the cell  *)
(* pandas holds for a missing value.  TLC has no operations on strings, so *)
(* the text functions are given by what they return on the cells of the    *)
(* model's rows: str_strip, the characters of a title, the fields of a     *)
(* date and the value of a number.                                         *)
(***************************************************************************)
NaN == "<NaN>"

NaT == -1

\* str(val).strip() and Series.str.strip()
str_strip(s) ==
    CASE s = " Grade " -> "Grade"
      [] s = " Ds" -> "Ds"
      [] s = NaN -> "nan"
      [] OTHER -> s

\* the characters of a title
Chars(s) ==
    CASE s = "DS!" -> <<"D", "S", "!">>
      [] s = "ds" -> <<"d", "s">>
      [] s = " Ds" -> <<" ", "D", "s">>
      [] s = "Ds" -> <<"D", "s">>
      [] s = "Algo" -> <<"A", "l", "g", "o">>
      [] s = "Grade" -> <<"G", "r", "a", "d", "e">>
      [] OTHER -> <<>>

\* str.lower() on one character
Lower(c) ==
    CASE c = "A" -> "a" [] c = "D" -> "d" [] c = "G" -> "g" [] c = "S" -> "s"
      [] OTHER -> c

LowerAlnum ==
    {"a", "b", "c", "d", "e", "f", "g", "h", "i", "j", "k", "l", "m", "n", "o",
     "p", "q", "r", "s", "t", "u", "v", "w", "x", "y", "z",
     "0", "1", "2", "3", "4", "5", "6", "7", "8", "9"}

normalize_course_title(title) ==
    LET lowered == [i \in 1..Len(Chars(title)) |-> Lower(Chars(title)[i])]
    IN SelectSeq(lowered, LAMBDA c : c \in LowerAlnum)

\* pd.to_numeric(errors="coerce"): the value in tenths, or not a number
to_numeric(s) ==
    CASE s = "2" -> [ok |-> TRUE, tenths |-> 20]
      [] s = "3" -> [ok |-> TRUE, tenths |-> 30]
      [] s = "4" -> [ok |-> TRUE, tenths |-> 40]
      [] s = "-2" -> [ok |-> TRUE, tenths |-> -20]
      [] s = "3.5" -> [ok |-> TRUE, tenths |-> 35]
      [] OTHER -> [ok |-> FALSE, tenths |-> 0]

\* astype(int): truncation towards zero
astype_int(tenths) ==
    IF tenths >= 0 THEN tenths \div 10 ELSE -((-tenths) \div 10)

\* the three numbers of a date written a/b/y; <<>> when the text is no date
DateFields(s) ==
    CASE s = "05/03/2022" -> <<5, 3, 2022>>
      [] s = "04/06/2022" -> <<4, 6, 2022>>
      [] s = "07/08/2022" -> <<7, 8, 2022>>
      [] OTHER -> <<>>

Ordinal(y, m, d) == (y * 12 + m) * 31 + d

\* pd.to_datetime(errors="coerce", dayfirst=...)
to_datetime(s, dayfirst) ==
    LET f == DateFields(s)
    IN IF f = <<>> THEN NaT
       ELSE IF dayfirst
            THEN (IF f[2] <= 12 THEN Ordinal(f[3], f[2], f[1])
                  ELSE IF f[1] <= 12 THEN Ordinal(f[3], f[1], f[2]) ELSE NaT)
            ELSE (IF f[1] <= 12 THEN Ordinal(f[3], f[1], f[2])
                  ELSE IF f[2] <= 12 THEN Ordinal(f[3], f[2], f[1]) ELSE NaT)

\* the day the program runs
Today == Ordinal(2026, 11, 2)

Range(f) == {f[i] : i \in DOMAIN f}

\* a scan that takes a row with either label
is_header_row_either(row) ==
    \/ "Course Code" \in {str_strip(row[k]) : k \in DOMAIN row}
    \/ "Grade" \in {str_strip(row[k]) : k \in DOMAIN row}

\* the header test of the scan
is_header_row(row) ==
    /\ "Course Code" \in {str_strip(row[k]) : k \in DOMAIN row}
    /\ "Grade" \in {str_strip(row[k]) : k \in DOMAIN row}

\* the first header row, 0 when there is none
header_row_index(df) ==
    IF \E i \in DOMAIN df : is_header_row(df[i])
    THEN CHOOSE i \in DOMAIN df :
            /\ is_header_row(df[i])
            /\ \A j \in 1..(i - 1) : ~is_header_row(df[j])
    ELSE 0

\* the position of a column label
Column(headers, name) ==
    CHOOSE k \in DOMAIN headers :
        headers[k] = name /\ \A j \in 1..(k - 1) : headers[j] # name

Failure(why) == [status |-> why, rows |-> <<>>]

\* pd.date_range(end="today", periods=n, freq="D"): n days, the last one today
date_range_descending(n) == [i \in 1..n |-> Today - (i - 1)]

date_range(n) == [i \in 1..n |-> Today - (n - i)]

\* the row sort_values(ascending=False) puts first: the latest date, NaT last;
\* rows of the same date in an order the sort does not promise (tie)
Before(a, b, tie, n) ==
    \/ a.date > b.date
    \/ a.date = b.date /\ ((a.row + tie) % n) < ((b.row + tie) % n)

RECURSIVE sort_values(_, _, _)
sort_values(rows, tie, n) ==
    IF rows = <<>> THEN <<>>
    ELSE LET i == CHOOSE k \in DOMAIN rows :
                     \A j \in DOMAIN rows : j = k \/ Before(rows[k], rows[j], tie, n)
         IN <<rows[i]>> \o sort_values(
                [k \in 1..(Len(rows) - 1) |-> IF k < i THEN rows[k] ELSE rows[k + 1]],
                tie, n)

\* drop_duplicates(subset="normalized_title", keep="last")
drop_duplicates_keep_last(rows) ==
    LET keep == {i \in DOMAIN rows :
                    \A j \in (i + 1)..Len(rows) :
                        rows[j].normalized_title # rows[i].normalized_title}
        F[i \in 0..Len(rows)] ==
            IF i = 0 THEN <<>>
            ELSE IF i \in keep THEN Append(F[i - 1], rows[i]) ELSE F[i - 1]
    IN F[Len(rows)]

\* drop_duplicates(subset="normalized_title", keep="first")
drop_duplicates(rows) ==
    LET keep == {i \in DOMAIN rows :
                    \A j \in 1..(i - 1) :
                        rows[j].normalized_title # rows[i].normalized_title}
        F[i \in 0..Len(rows)] ==
            IF i = 0 THEN <<>>
            ELSE IF i \in keep THEN Append(F[i - 1], rows[i]) ELSE F[i - 1]
    IN F[Len(rows)]

ValidGrades == {"S", "A", "B", "C", "D", "E", "F", "P"}

\* the same steps with the grade filter ahead of the deduplication
Pipeline_filter_first(rows, has_date, dayfirst, drop_nat, tie, n) ==
    LET dropna == SelectSeq(rows, LAMBDA r :
                      /\ r.code # NaN /\ r.title # NaN /\ r.credits # NaN
                      /\ r.grade # NaN /\ (has_date => r.date # NaN))
        numeric == SelectSeq(dropna, LAMBDA r : to_numeric(r.credits).ok)
        typed == [i \in 1..Len(numeric) |->
                    [row |-> numeric[i].row,
                     course_code |-> str_strip(numeric[i].code),
                     course |-> Chars(str_strip(numeric[i].title)),
                     normalized_title |-> normalize_course_title(numeric[i].title),
                     credits |-> astype_int(to_numeric(numeric[i].credits).tenths),
                     grade |-> numeric[i].grade,
                     date |-> IF has_date THEN to_datetime(numeric[i].date, dayfirst)
                              ELSE NaT]]
        dated == IF has_date
                 THEN (IF drop_nat THEN SelectSeq(typed, LAMBDA r : r.date # NaT)
                       ELSE typed)
                 ELSE [i \in 1..Len(typed) |->
                          [typed[i] EXCEPT !.date = date_range(Len(typed))[i]]]
        sorted == sort_values(dated, tie, n)
        valid == SelectSeq(sorted, LAMBDA r : r.grade \in ValidGrades)
        graded == drop_duplicates(valid)
    IN [status |-> "ok",
        rows |-> [i \in 1..Len(graded) |->
                     [row |-> graded[i].row,
                      course_code |-> graded[i].course_code,
                      course |-> graded[i].course,
                      credits |-> graded[i].credits,
                      grade |-> graded[i].grade,
                      date |-> graded[i].date]]]

\* the steps both programs share, after the columns are chosen: rows holds
\* the cells of the kept columns and the index of the raw row they come from
Pipeline(rows, has_date, dayfirst, drop_nat, tie, n) ==
    LET dropna == SelectSeq(rows, LAMBDA r :
                      /\ r.code # NaN /\ r.title # NaN /\ r.credits # NaN
                      /\ r.grade # NaN /\ (has_date => r.date # NaN))
        numeric == SelectSeq(dropna, LAMBDA r : to_numeric(r.credits).ok)
        typed == [i \in 1..Len(numeric) |->
                    [row |-> numeric[i].row,
                     course_code |-> str_strip(numeric[i].code),
                     course |-> Chars(str_strip(numeric[i].title)),
                     normalized_title |-> normalize_course_title(numeric[i].title),
                     credits |-> astype_int(to_numeric(numeric[i].credits).tenths),
                     grade |-> numeric[i].grade,
                     date |-> IF has_date THEN to_datetime(numeric[i].date, dayfirst)
                              ELSE NaT]]
        dated == IF has_date
                 THEN (IF drop_nat THEN SelectSeq(typed, LAMBDA r : r.date # NaT)
                       ELSE typed)
                 ELSE [i \in 1..Len(typed) |->
                          [typed[i] EXCEPT !.date = date_range(Len(typed))[i]]]
        sorted == sort_values(dated, tie, n)
        unique == drop_duplicates(sorted)
        graded == SelectSeq(unique, LAMBDA r : r.grade \in ValidGrades)
    IN [status |-> "ok",
        rows |-> [i \in 1..Len(graded) |->
                     [row |-> graded[i].row,
                      course_code |-> graded[i].course_code,
                      course |-> graded[i].course,
                      credits |-> graded[i].credits,
                      grade |-> graded[i].grade,
                      date |-> graded[i].date]]]

\* the cells of the rows after the header, by column label
Selected(df, h, headers, date_col) ==
    [i \in 1..(Len(df) - h) |->
        [row |-> h + i,
         code |-> df[h + i][Column(headers, "Course Code")],
         title |-> df[h + i][Column(headers, "Course Title")],
         credits |-> df[h + i][Column(headers, "Credits")],
         grade |-> df[h + i][Column(headers, "Grade")],
         date |-> IF date_col = "" THEN NaN
                  ELSE df[h + i][Column(headers, date_col)]]]

\* main_advanced.py
clean_table_data(df, tie) ==
    LET h == header_row_index(df)
    IN IF h = 0 THEN Failure("HeaderNotFound")
       ELSE LET headers == [k \in DOMAIN df[h] |-> str_strip(df[h][k])]
                date_col == IF "Date" \in Range(headers) THEN "Date"
                            ELSE IF "Result Declared On" \in Range(headers)
                            THEN "Result Declared On" ELSE ""
            IN IF ~({"Course Title", "Credits"} \subseteq Range(headers))
               THEN Failure("KeyError")
               ELSE Pipeline(Selected(df, h, headers, date_col),
                             date_col # "", TRUE, TRUE, tie, Len(df))

\* 1.py
clean_table_data_v1(df, tie) ==
    LET h == header_row_index(df)
    IN IF h = 0 THEN Failure("HeaderNotFound")
       ELSE LET headers == [k \in DOMAIN df[h] |-> str_strip(df[h][k])]
                date_col == IF "Date" \in Range(headers) THEN "Date" ELSE ""
            IN IF ~({"Course Title", "Credits"} \subseteq Range(headers))
               THEN Failure("KeyError")
               ELSE Pipeline(Selected(df, h, headers, date_col),
                             date_col # "", FALSE, FALSE, tie, Len(df))

(***************************************************************************)
(* The interactive program: main and the two simulator loops.              *)
(***************************************************************************)
\* what a user types at the prompts
TypedGrades == {"A", "B", "P"}

TypedCredits == (-1)..MaxTypedCredits

\* the text typed at a credits prompt: a number, or text float() rejects
TypedNumbers ==
    {[numeric |-> TRUE, value |-> c] : c \in TypedCredits}
        \cup {[numeric |-> FALSE, value |-> 0]}

\* the transcripts the sessions start from
SessionRecords ==
    { <<[grade |-> "B", credits |-> 2], [grade |-> "A", credits |-> 1]>>,
      <<[grade |-> "A", credits |-> 2], [grade |-> "P", credits |-> 2]>> }

NoCall == [kind |-> "none", op |-> <<>>, status |-> "none", prior |-> <<>>]

\* the objects the three variables of main still reference, renumbered
Compact(h, o, i, f) ==
    LET io == IF i = o THEN 1 ELSE 2
        fo == IF f = o THEN 1 ELSE IF f = i THEN io ELSE io + 1
        n == IF fo > io THEN fo ELSE io
    IN [heap |-> [k \in 1..n |-> IF k = 1 THEN h[o]
                                 ELSE IF k = io THEN h[i] ELSE h[f]],
        o |-> 1, i |-> io, f |-> fo]

\* main up to the menu: print_analysis and the two copies
Analysed(df) ==
    LET distribution == get_grade_distribution(df)
        c1 == dict_copy(<<distribution>>, 1)
        c2 == dict_copy(c1.heap, 1)
    IN [cgpa |-> calculate_current_cgpa(df), heap |-> c2.heap,
        original_dist |-> 1, improved_distribution |-> c1.ref,
        future_distribution |-> c2.ref]

Init ==
    /\ records \in SessionRecords
    /\ LET a == Analysed(records)
       IN /\ heap = a.heap
          /\ original_dist = a.original_dist
          /\ improved_distribution = a.improved_distribution
          /\ future_distribution = a.future_distribution
          /\ current_cgpa = a.cgpa
    /\ pc = "main"
    /\ improvement_changes = <<>>
    /\ future_changes = <<>>
    /\ accepted = <<>>
    /\ last = NoCall
    /\ sessions = 0
    /\ raw_df = <<>>
    /\ clean_df = Failure("pending")
    /\ clean_df_v1 = Failure("pending")

\* the references of main after a call that left heap h
Keep(h, o, i, f) ==
    LET c == Compact(h, o, i, f)
    IN /\ heap' = c.heap
       /\ original_dist' = c.o
       /\ improved_distribution' = c.i
       /\ future_distribution' = c.f

\* main menu, choice 1
main_improvement ==
    /\ pc = "main"
    /\ sessions < MaxSessions
    /\ pc' = "improve"
    /\ sessions' = sessions + 1
    /\ improvement_changes' = <<>>
    /\ accepted' = <<>>
    /\ last' = NoCall
    /\ UNCHANGED <<records, heap, original_dist, improved_distribution,
                   future_distribution, current_cgpa, future_changes>>
    /\ UNCHANGED tableVars

\* main menu, choice 2
main_future ==
    /\ pc = "main"
    /\ sessions < MaxSessions
    /\ pc' = "future"
    /\ sessions' = sessions + 1
    /\ future_changes' = <<>>
    /\ accepted' = <<>>
    /\ last' = NoCall
    /\ UNCHANGED <<records, heap, original_dist, improved_distribution,
                   future_distribution, current_cgpa, improvement_changes>>
    /\ UNCHANGED tableVars

\* main menu, choice 5
main_exit ==
    /\ pc = "main"
    /\ pc' = "done"
    /\ UNCHANGED ledgerVars
    /\ UNCHANGED last
    /\ UNCHANGED tableVars

\* simulate_grade_improvement, choice 1
improvement_add(from_grade, to_grade, typed) ==
    /\ pc = "improve"
    /\ Len(improvement_changes) < MaxChain
    /\ IF ~typed.numeric
       THEN /\ last' = [kind |-> "improve", op |-> <<from_grade, to_grade>>,
                        status |-> "BadNumber", prior |-> accepted]
            /\ UNCHANGED <<pc, improvement_changes, accepted, heap, original_dist,
                           improved_distribution, future_distribution>>
       ELSE LET change == <<from_grade, to_grade, typed.value>>
                changes == Append(improvement_changes, change)
                r == simulate_and_print(heap, original_dist, changes)
            IN /\ improvement_changes' = changes
               /\ last' = [kind |-> "improve", op |-> change,
                           status |-> r.status, prior |-> accepted]
               /\ accepted' = IF r.status = "ok" THEN Append(accepted, change)
                              ELSE accepted
               /\ pc' = IF r.status \in ValueErrors \cup {"ok"}
                        THEN "improve" ELSE "crashed"
               /\ Keep(r.heap, original_dist, improved_distribution,
                       future_distribution)
    /\ UNCHANGED <<records, current_cgpa, future_changes, sessions>>
    /\ UNCHANGED tableVars

\* simulate_grade_improvement, choice 3
improvement_reset ==
    /\ pc = "improve"
    /\ improvement_changes' = <<>>
    /\ accepted' = <<>>
    /\ last' = [kind |-> "reset", op |-> <<>>, status |-> "ok", prior |-> <<>>]
    /\ UNCHANGED <<records, heap, original_dist, improved_distribution,
                   future_distribution, current_cgpa, pc, future_changes, sessions>>
    /\ UNCHANGED tableVars

\* simulate_grade_improvement, choice 4, and main's assignment of what it returns
improvement_finalize ==
    /\ pc = "improve"
    /\ IF improvement_changes # <<>>
       THEN LET r == simulate_and_print(heap, original_dist, improvement_changes)
            IN /\ last' = [kind |-> "finalize", op |-> <<>>,
                           status |-> r.status, prior |-> accepted]
               /\ IF r.status = "ok"
                  THEN /\ pc' = "main"
                       /\ current_cgpa' = calculate_cgpa_from_distribution(r.heap[r.ret])
                       /\ Keep(r.heap, original_dist, r.ret, future_distribution)
                  ELSE /\ pc' = "crashed"
                       /\ UNCHANGED current_cgpa
                       /\ Keep(r.heap, original_dist, improved_distribution,
                               future_distribution)
       ELSE /\ last' = [kind |-> "finalize", op |-> <<>>,
                        status |-> "ok", prior |-> accepted]
            /\ pc' = "main"
            /\ UNCHANGED current_cgpa
            /\ Keep(heap, original_dist, original_dist, future_distribution)
    /\ UNCHANGED <<records, improvement_changes, future_changes, accepted, sessions>>
    /\ UNCHANGED tableVars

\* simulate_future_courses (the loop), choice 1
future_add(future_grade, typed) ==
    /\ pc = "future"
    /\ Len(future_changes) < MaxChain
    /\ IF ~typed.numeric
       THEN /\ last' = [kind |-> "future", op |-> <<future_grade>>,
                        status |-> "BadNumber", prior |-> accepted]
            /\ UNCHANGED <<pc, future_changes, accepted, heap, original_dist,
                           improved_distribution, future_distribution>>
       ELSE LET change == <<future_grade, typed.value>>
                changes == Append(future_changes, change)
                r == simulate_future_courses(heap, improved_distribution, changes)
            IN /\ future_changes' = changes
               /\ last' = [kind |-> "future", op |-> change,
                           status |-> r.status, prior |-> accepted]
               /\ accepted' = IF r.status = "ok" THEN Append(accepted, change)
                              ELSE accepted
               /\ pc' = IF r.status \in ValueErrors \cup {"ok"}
                        THEN "future" ELSE "crashed"
               /\ Keep(r.heap, original_dist, improved_distribution,
                       future_distribution)
    /\ UNCHANGED <<records, current_cgpa, improvement_changes, sessions>>
    /\ UNCHANGED tableVars

\* simulate_future_courses (the loop), choice 3
future_reset ==
    /\ pc = "future"
    /\ future_changes' = <<>>
    /\ accepted' = <<>>
    /\ last' = [kind |-> "reset", op |-> <<>>, status |-> "ok", prior |-> <<>>]
    /\ UNCHANGED <<records, heap, original_dist, improved_distribution,
                   future_distribution, current_cgpa, pc, improvement_changes,
                   sessions>>
    /\ UNCHANGED tableVars

\* simulate_future_courses (the loop), choice 4, and main's assignment
future_finalize ==
    /\ pc = "future"
    /\ IF future_changes # <<>>
       THEN LET r == simulate_future_courses(heap, improved_distribution,
                                             future_changes)
            IN /\ last' = [kind |-> "finalize", op |-> <<>>,
                           status |-> r.status, prior |-> accepted]
               /\ IF r.status = "ok"
                  THEN /\ pc' = "main"
                       /\ Keep(r.heap, original_dist, improved_distribution, r.ret)
                  ELSE /\ pc' = "crashed"
                       /\ Keep(r.heap, original_dist, improved_distribution,
                               future_distribution)
       ELSE /\ last' = [kind |-> "finalize", op |-> <<>>,
                        status |-> "ok", prior |-> accepted]
            /\ pc' = "main"
            /\ Keep(heap, original_dist, improved_distribution,
                    improved_distribution)
    /\ UNCHANGED <<records, current_cgpa, improvement_changes, future_changes,
                   accepted, sessions>>
    /\ UNCHANGED tableVars

Next ==
    \/ main_improvement
    \/ main_future
    \/ main_exit
    \/ \E f \in TypedGrades, t \in TypedGrades, c \in TypedNumbers :
          improvement_add(f, t, c)
    \/ improvement_reset
    \/ improvement_finalize
    \/ \E g \in TypedGrades, c \in TypedNumbers : future_add(g, c)
    \/ future_reset
    \/ future_finalize

Spec == Init /\ [][Next]_vars

(***************************************************************************)
(* The ledger alone: any transcript of up to MaxRecords records, analysed. *)
(***************************************************************************)
LedgerInit ==
    /\ records = <<>>
    /\ heap = <<>>
    /\ original_dist = 0
    /\ improved_distribution = 0
    /\ future_distribution = 0
    /\ current_cgpa = Zero
    /\ pc = "input"
    /\ improvement_changes = <<>>
    /\ future_changes = <<>>
    /\ accepted = <<>>
    /\ last = NoCall
    /\ sessions = 0
    /\ raw_df = <<>>
    /\ clean_df = Failure("pending")
    /\ clean_df_v1 = Failure("pending")

\* one more record of the cleaned transcript
read_record(grade, credits) ==
    /\ pc = "input"
    /\ Len(records) < MaxRecords
    /\ records' = Append(records, [grade |-> grade, credits |-> credits])
    /\ UNCHANGED <<heap, original_dist, improved_distribution, future_distribution,
                   current_cgpa, pc, improvement_changes, future_changes, accepted,
                   last, sessions>>
    /\ UNCHANGED tableVars

\* main: print_analysis and the two copies
print_analysis ==
    /\ pc = "input"
    /\ pc' = "main"
    /\ LET a == Analysed(records)
       IN /\ heap' = a.heap
          /\ original_dist' = a.original_dist
          /\ improved_distribution' = a.improved_distribution
          /\ future_distribution' = a.future_distribution
          /\ current_cgpa' = a.cgpa
    /\ UNCHANGED <<records, improvement_changes, future_changes, accepted, last,
                   sessions>>
    /\ UNCHANGED tableVars

LedgerNext ==
    \/ \E g \in AllGrades, c \in 0..MaxRecordCredits : read_record(g, c)
    \/ print_analysis

LedgerSpec == LedgerInit /\ [][LedgerNext]_vars

(***************************************************************************)
(* Normalisation alone: any table of up to MaxRows of these rows.          *)
(***************************************************************************)
RawRows ==
    { <<"Course Code", "Course Title", "Credits", "Grade", "Type">>,
      <<"Course Code", "Course Title", "Credits", " Grade ", "Date">>,
      <<"Course Code", "Course Title", "Credits", "Grade", "Result Declared On">>,
      <<"Course Code", "Name", "Credits", "Grade", "Date">>,
      <<"Grade", "Report", "", "", "">>,
      <<"CS1", "DS!", "3", "A", "05/03/2022">>,
      <<"CS1", "ds", "4", "B", "04/06/2022">>,
      <<"CS2", "ds", "3", "S", "05/03/2022">>,
      <<"CS9", " Ds", "2", "W", "07/08/2022">>,
      <<"MA1", "ds", "abc", "S", "07/08/2022">>,
      <<"MA1", "Algo", "-2", "P", "bad">>,
      <<"CS1", "", "3", "A", "04/06/2022">>,
      <<NaN, "Algo", "3.5", "F", "04/06/2022">> }

TableInit ==
    /\ raw_df = <<>>
    /\ clean_df = Failure("pending")
    /\ clean_df_v1 = Failure("pending")
    /\ pc = "extract"
    /\ records = <<>>
    /\ heap = <<>>
    /\ original_dist = 0
    /\ improved_distribution = 0
    /\ future_distribution = 0
    /\ current_cgpa = Zero
    /\ improvement_changes = <<>>
    /\ future_changes = <<>>
    /\ accepted = <<>>
    /\ last = NoCall
    /\ sessions = 0

\* extract_table_data hands over one more row
extract_row(row) ==
    /\ pc = "extract"
    /\ Len(raw_df) < MaxRows
    /\ raw_df' = Append(raw_df, row)
    /\ UNCHANGED <<clean_df, clean_df_v1, pc, last>>
    /\ UNCHANGED ledgerVars

\* clean_table_data runs on the table, in both programs
clean(tie) ==
    /\ pc = "extract"
    /\ pc' = "cleaned"
    /\ clean_df' = clean_table_data(raw_df, tie)
    /\ clean_df_v1' = clean_table_data_v1(raw_df, tie)
    /\ UNCHANGED <<raw_df, last>>
    /\ UNCHANGED ledgerVars

TableNext ==
    \/ \E row \in RawRows : extract_row(row)
    \/ \E tie \in 0..(IF raw_df = <<>> THEN 0 ELSE Len(raw_df) - 1) : clean(tie)

TableSpec == TableInit /\ [][TableNext]_vars

(***************************************************************************)
(* The engine alone: a caller holds the distribution of a transcript and   *)
(* calls simulate_improvement with one transfer, keeping what it returns.  *)
(***************************************************************************)
TransferGrades == {"S", "A", "B", "F", "P"}

TransferCredits == (-1)..MaxRecordCredits

\* transcripts of up to MaxRecords records, with grades A, B, A, ...
TransferRecords ==
    UNION {{[i \in 1..n |-> [grade |-> IF i % 2 = 1 THEN "A" ELSE "B",
                             credits |-> c[i]]] :
                c \in [1..n -> 1..MaxRecordCredits]} : n \in 0..MaxRecords}

TransferInit ==
    /\ records \in TransferRecords
    /\ LET a == Analysed(records)
       IN /\ heap = a.heap
          /\ original_dist = a.original_dist
          /\ improved_distribution = a.improved_distribution
          /\ future_distribution = a.future_distribution
          /\ current_cgpa = a.cgpa
    /\ pc = "transfer"
    /\ improvement_changes = <<>>
    /\ future_changes = <<>>
    /\ accepted = <<>>
    /\ last = NoCall
    /\ sessions = 0
    /\ raw_df = <<>>
    /\ clean_df = Failure("pending")
    /\ clean_df_v1 = Failure("pending")

\* new_distribution = self.simulate_improvement(new_distribution, [change])
call_simulate_improvement(from_grade, to_grade, credits) ==
    /\ pc = "transfer"
    /\ Len(improvement_changes) < MaxTransfers
    /\ LET change == <<from_grade, to_grade, credits>>
           r == simulate_improvement(heap, improved_distribution, <<change>>)
       IN /\ improvement_changes' = Append(improvement_changes, change)
          /\ last' = [kind |-> "improve", op |-> change, status |-> r.status,
                      prior |-> accepted]
          /\ accepted' = IF r.status = "ok" THEN Append(accepted, change)
                         ELSE accepted
          /\ Keep(r.heap, original_dist,
                  IF r.status = "ok" THEN r.ret ELSE improved_distribution,
                  future_distribution)
    /\ UNCHANGED <<records, current_cgpa, pc, future_changes, sessions>>
    /\ UNCHANGED tableVars

TransferNext ==
    \E f \in TransferGrades, t \in TransferGrades, c \in TransferCredits :
        call_simulate_improvement(f, t, c)

TransferSpec == TransferInit /\ [][TransferNext]_vars

(***************************************************************************)
(* Properties.                                                             *)
(***************************************************************************)
LiveRefs == {original_dist, improved_distribution, future_distribution}

CheckedGrades == {"S", "A", "B", "F", "P", "X"}

CheckedTransfers ==
    {<<f, t, c>> : f \in CheckedGrades, t \in CheckedGrades,
                   c \in (-MaxCheckedCredits)..MaxCheckedCredits}

\* C1: the CGPA of the aggregated distribution and the CGPA computed from the
\* records are the same ratio, and both are 0 when no credits count
C1_CgpaPathsAgree ==
    pc = "main" =>
        LET from_distribution == calculate_cgpa_from_distribution(heap[original_dist])
        IN /\ RatEq(from_distribution, current_cgpa)
           /\ SumCredits(records, AllGrades \ {"P"}) = 0 =>
                 from_distribution = Zero /\ current_cgpa = Zero

C1_Witness ==
    /\ pc = "main"
    /\ \E i \in DOMAIN records : records[i].grade = "P" /\ records[i].credits > 0
    /\ current_cgpa[1] > 0
    /\ RatEq(calculate_cgpa_from_distribution(heap[original_dist]), current_cgpa)

\* C2: a transfer simulate_improvement accepts leaves the total of the
\* credits as it was
C2_TransferConservesCredits ==
    pc = "main" =>
        \A ref \in LiveRefs, op \in CheckedTransfers :
            LET r == simulate_improvement(heap, ref, <<op>>)
            IN r.status = "ok" => DictSum(r.heap[r.ret]) = DictSum(heap[ref])

\* an accepted transfer to a grade the distribution had no key for
C2_Witness ==
    /\ last.kind = "improve"
    /\ last.status = "ok"
    /\ last.prior = <<>>
    /\ last.op[2] \notin DOMAIN heap[original_dist]
    /\ last.op[3] > 0
    /\ LET r == simulate_improvement(heap, original_dist, <<last.op>>)
       IN /\ last.op[2] \in DOMAIN r.heap[r.ret]
          /\ DictSum(r.heap[r.ret]) = DictSum(heap[original_dist])

\* the error a transfer for more credits than from_grade holds is to raise:
\* always the insufficient-credits error (always), or the invalid-grade error
\* when a grade is no key of points
ExpectedError(op, points, always) ==
    IF always \/ {op[1], op[2]} \subseteq DOMAIN points
    THEN "InsufficientCredits" ELSE "InvalidGrade"

\* every transfer for more credits than from_grade holds (no key: 0) is
\* rejected with that error, nothing is returned and the caller's distribution
\* is as it was: simulate_improvement of main_advanced.py on every distribution
\* the program holds, and of 1.py on its distribution
OverdrawAnswered(always) ==
    /\ \A ref \in LiveRefs, op \in CheckedTransfers :
          op[3] > DictGet(heap[ref], op[1], 0) =>
              LET r == simulate_improvement(heap, ref, <<op>>)
              IN /\ r.status = ExpectedError(op, grade_points, always)
                 /\ r.ret = 0
                 /\ r.heap[ref] = heap[ref]
    /\ LET h == <<get_grade_distribution_v1(records)>>
       IN \A op \in CheckedTransfers :
             op[3] > DictGet(h[1], op[1], 0) =>
                 LET r == simulate_improvement_v1(h, 1, <<op>>)
                 IN /\ r.status = ExpectedError(op, grade_points_v1, always)
                    /\ r.ret = 0
                    /\ r.heap[1] = h[1]

\* C3, as amended: a transfer for more credits than from_grade holds is
\* rejected, with the insufficient-credits error when both grades are keys of
\* grade_points and with the invalid-grade error otherwise (in main_advanced.py
\* that includes P), and the caller's distribution is as it was
C3_OverdrawRejected == pc = "main" => OverdrawAnswered(FALSE)

\* C3, as claimed: every such transfer is rejected with the
\* insufficient-credits error
C3_OverdrawAlwaysInsufficient == pc = "main" => OverdrawAnswered(TRUE)

\* the simulator rejected a transfer from a grade with no key
C3_Witness ==
    /\ last.kind = "improve"
    /\ last.status = "InsufficientCredits"
    /\ last.prior = <<>>
    /\ last.op[1] \in DOMAIN grade_points
    /\ last.op[1] \notin DOMAIN heap[original_dist]
    /\ heap[original_dist] = get_grade_distribution(records)

\* C4: the chain applied by one simulate_improvement call and by
\* simulate_and_print's single calls end the same way: the same distribution,
\* or the same error at the same operation and nothing returned
C4_ChainEqualsSingles ==
    LET a == simulate_improvement(heap, original_dist, improvement_changes)
        b == simulate_and_print(heap, original_dist, improvement_changes)
    IN /\ a.status = b.status
       /\ a.at = b.at
       /\ a.status = "ok" => a.heap[a.ret] = b.heap[b.ret]
       /\ a.status # "ok" => a.ret = 0 /\ b.ret = 0

\* a chain of two accepted transfers, the second from a grade that only the
\* first one gave credits to
C4_Witness ==
    /\ Len(improvement_changes) = 2
    /\ last.kind = "improve"
    /\ last.status = "ok"
    /\ improvement_changes[2][1] \notin DOMAIN heap[original_dist]
    /\ improvement_changes[2][3] > 0

\* C5: no balance of a distribution the program holds is negative
C5_BalancesNonNegative ==
    \A ref \in LiveRefs : \A g \in DOMAIN heap[ref] : heap[ref][g] >= 0

\* the operation the last prompt entered is valid against the result of the
\* operations accepted before it
ValidAgainstAccepted ==
    \/ /\ last.kind = "improve"
       /\ last.status # "BadNumber"
       /\ simulate_and_print(heap, original_dist,
                             Append(last.prior, last.op)).status = "ok"
    \/ /\ last.kind = "future"
       /\ last.status # "BadNumber"
       /\ simulate_future_courses(heap, improved_distribution,
                                  Append(last.prior, last.op)).status = "ok"

\* C6: an operation entered in a simulator that is valid against the result
\* of the operations accepted before it is accepted, also after a rejection
C6_RetryAfterRejection == ValidAgainstAccepted => last.status = "ok"

\* C7: the original distribution is what get_grade_distribution returned
C7_OriginalDistUntouched ==
    heap[original_dist] = get_grade_distribution(records)

\* a future-courses session finalized with changes, entered while
\* improved_distribution was the original object itself
C7_Witness ==
    /\ pc = "main"
    /\ improved_distribution = original_dist
    /\ future_distribution # original_dist
    /\ heap[future_distribution] # heap[original_dist]
    /\ last.kind = "finalize"
    /\ heap[original_dist] = get_grade_distribution(records)

\* the row has a cell that reads label once stripped
Labelled(row, label) == \E k \in DOMAIN row : str_strip(row[k]) = label

\* the first row of the table with both labels, 0 when no row has them
FirstLabelledRow ==
    IF \E i \in DOMAIN raw_df :
          Labelled(raw_df[i], "Course Code") /\ Labelled(raw_df[i], "Grade")
    THEN CHOOSE i \in DOMAIN raw_df :
            /\ Labelled(raw_df[i], "Course Code") /\ Labelled(raw_df[i], "Grade")
            /\ \A j \in 1..(i - 1) :
                  ~(Labelled(raw_df[j], "Course Code") /\ Labelled(raw_df[j], "Grade"))
    ELSE 0

\* the cell of row i in the column that row FirstLabelledRow labels
CellOf(i, label) ==
    raw_df[i][CHOOSE k \in DOMAIN raw_df[FirstLabelledRow] :
                  str_strip(raw_df[FirstLabelledRow][k]) = label]

\* the date column main_advanced.py resolves ("" when there is none)
DateLabel ==
    IF Labelled(raw_df[FirstLabelledRow], "Date") THEN "Date"
    ELSE IF Labelled(raw_df[FirstLabelledRow], "Result Declared On")
    THEN "Result Declared On" ELSE ""

\* the rows after the header
DataRows == (FirstLabelledRow + 1)..Len(raw_df)

\* the normalized title of row i: lower-cased, non-alphanumerics removed
NormalizedTitleOf(i) == normalize_course_title(CellOf(i, "Course Title"))

\* a data row with no missing cell in the four mandatory columns and credits
\* that are a number
WellFormed(i) ==
    /\ CellOf(i, "Course Code") # NaN
    /\ CellOf(i, "Course Title") # NaN
    /\ CellOf(i, "Credits") # NaN
    /\ CellOf(i, "Grade") # NaN
    /\ to_numeric(CellOf(i, "Credits")).ok

\* the date of row i, read day first (NaT: none)
DateOf(i) ==
    IF CellOf(i, DateLabel) = NaN THEN NaT
    ELSE to_datetime(CellOf(i, DateLabel), TRUE)

\* the table has a date column and was normalized
CleanedWithDates ==
    /\ pc = "cleaned"
    /\ clean_df.status = "ok"
    /\ DateLabel # ""

\* no two records share a normalized title
OnePerTitle ==
    \A i, j \in DOMAIN clean_df.rows :
        i # j => NormalizedTitleOf(clean_df.rows[i].row)
                     # NormalizedTitleOf(clean_df.rows[j].row)

\* among the data rows in among that share its normalized title, a record is
\* the one with the latest date
LatestSurvives(among) ==
    \A i \in DOMAIN clean_df.rows :
        LET rec == clean_df.rows[i]
        IN /\ rec.date = DateOf(rec.row)
           /\ \A j \in among :
                 NormalizedTitleOf(j) = NormalizedTitleOf(rec.row)
                     => DateOf(j) <= rec.date

\* the rows that reach deduplication: no missing cell, numeric credits, a date
\* that parses
Dated == {i \in DataRows : WellFormed(i) /\ DateOf(i) # NaT}

\* C8, as amended: the output has at most one record per normalized title, and
\* among the rows that reach deduplication (no missing cell, numeric credits, a
\* date that parses) with distinct dates and the same normalized title, the
\* surviving record, if any, is the one with the latest date; that row is a
\* record whenever its grade is valid
C8_LatestCandidateSurvives ==
    /\ (pc = "cleaned" /\ clean_df.status = "ok") => OnePerTitle
    /\ CleanedWithDates =>
          /\ LatestSurvives(Dated)
          /\ \A i \in DOMAIN clean_df.rows : clean_df.rows[i].row \in Dated
          /\ \A j \in Dated :
                (/\ CellOf(j, "Grade") \in ValidGrades
                 /\ \A k \in Dated \ {j} :
                       NormalizedTitleOf(k) = NormalizedTitleOf(j)
                           => DateOf(k) < DateOf(j))
                    => \E i \in DOMAIN clean_df.rows : clean_df.rows[i].row = j

\* C8, as claimed: at most one record per normalized title, and among all the
\* input rows with a date that share a normalized title, the surviving record
\* is the one with the latest date
C8_LatestInputRowSurvives ==
    /\ (pc = "cleaned" /\ clean_df.status = "ok") => OnePerTitle
    /\ CleanedWithDates => LatestSurvives({i \in DataRows : DateOf(i) # NaT})

\* two rows whose titles differ only in case and punctuation, the later-dated
\* one survived
C8_Witness ==
    /\ CleanedWithDates
    /\ \E i \in DOMAIN clean_df.rows, j \in DataRows :
          /\ WellFormed(j) /\ DateOf(j) # NaT
          /\ j # clean_df.rows[i].row
          /\ NormalizedTitleOf(j) = NormalizedTitleOf(clean_df.rows[i].row)
          /\ CellOf(j, "Course Title") # CellOf(clean_df.rows[i].row, "Course Title")
          /\ DateOf(j) < clean_df.rows[i].date

\* the rows that get a synthetic date, and how many of them follow or come
\* before row i
Undated == {i \in DataRows : WellFormed(i)}

UndatedAfter(i) == Cardinality({j \in Undated : j > i})

UndatedBefore(i) == Cardinality({j \in Undated : j < i})

\* the table was normalized with synthetic dates: by main_advanced.py
\* (result clean_df) or by 1.py (clean_df_v1), which knows only the label Date
Synthetic(result, date_labels) ==
    /\ pc = "cleaned"
    /\ result.status = "ok"
    /\ \A label \in date_labels : ~Labelled(raw_df[FirstLabelledRow], label)

\* the last row gets today and each earlier row an earlier day; of the rows
\* that share a normalized title the one that comes last in the input is kept
LastRowWins(result) ==
    /\ \A i \in DOMAIN result.rows :
          LET rec == result.rows[i]
          IN /\ rec.row \in Undated
             /\ rec.date = Today - UndatedAfter(rec.row)
             /\ \A j \in Undated :
                   NormalizedTitleOf(j) = NormalizedTitleOf(rec.row) => j <= rec.row
    /\ \A j \in Undated :
          (/\ CellOf(j, "Grade") \in ValidGrades
           /\ \A k \in Undated :
                 NormalizedTitleOf(k) = NormalizedTitleOf(j) => k <= j)
              => \E i \in DOMAIN result.rows : result.rows[i].row = j

\* the first row gets today and each later row an earlier day; of the rows
\* that share a normalized title the one that comes first in the input is kept
FirstRowWins(result) ==
    \A i \in DOMAIN result.rows :
        LET rec == result.rows[i]
        IN /\ rec.row \in Undated
           /\ rec.date = Today - UndatedBefore(rec.row)
           /\ \A j \in Undated :
                 NormalizedTitleOf(j) = NormalizedTitleOf(rec.row) => j >= rec.row

\* C9, as amended: with no date column the synthetic dates increase with the
\* row order (the last row gets today, each earlier row one day less), so
\* among rows sharing a normalized title deduplication keeps the row that
\* appears last in the input
C9_SyntheticLastRowWins ==
    /\ Synthetic(clean_df, {"Date", "Result Declared On"}) => LastRowWins(clean_df)
    /\ Synthetic(clean_df_v1, {"Date"}) => LastRowWins(clean_df_v1)

\* C9, as claimed: the first row gets today, and deduplication keeps the row
\* that appears first in the input
C9_SyntheticFirstRowWins ==
    /\ Synthetic(clean_df, {"Date", "Result Declared On"}) => FirstRowWins(clean_df)
    /\ Synthetic(clean_df_v1, {"Date"}) => FirstRowWins(clean_df_v1)

\* two rows of one normalized title and no date column: the second is the
\* record, dated today
C9_Witness ==
    /\ Synthetic(clean_df, {"Date", "Result Declared On"})
    /\ \E i \in DOMAIN clean_df.rows, j \in Undated :
          /\ j < clean_df.rows[i].row
          /\ NormalizedTitleOf(j) = NormalizedTitleOf(clean_df.rows[i].row)
          /\ clean_df.rows[i].date = Today
    /\ clean_df_v1 = clean_df

\* C10: with no row holding both labels normalization fails with
\* header-not-found and yields no record; otherwise the first such row is the
\* header: the failure is not header-not-found, and every record comes from a
\* row after it, read in the columns that row labels
C10_HeaderFoundOrFailure ==
    pc = "cleaned" =>
        IF FirstLabelledRow = 0
        THEN clean_df.status = "HeaderNotFound" /\ clean_df.rows = <<>>
        ELSE /\ clean_df.status # "HeaderNotFound"
             /\ \A i \in DOMAIN clean_df.rows :
                   LET rec == clean_df.rows[i]
                   IN /\ rec.row > FirstLabelledRow
                      /\ rec.row <= Len(raw_df)
                      /\ rec.grade = CellOf(rec.row, "Grade")
                      /\ rec.course_code = str_strip(CellOf(rec.row, "Course Code"))
                      /\ rec.course = Chars(str_strip(CellOf(rec.row, "Course Title")))

\* a table whose header is not its first row, with a record from a row after it
C10_Witness ==
    /\ pc = "cleaned"
    /\ FirstLabelledRow > 1
    /\ clean_df.status = "ok"
    /\ clean_df.rows # <<>>
    /\ \A i \in DOMAIN clean_df.rows : clean_df.rows[i].row > FirstLabelledRow

\* what get_grade_distribution must hold for the grades in keys: the sum of
\* the credits of the records with the grade when it is positive, no key else
LedgerOf(distribution, df, keys) ==
    \A g \in keys :
        IF SumCredits(df, {g}) > 0
        THEN g \in DOMAIN distribution /\ distribution[g] = SumCredits(df, {g})
        ELSE g \notin DOMAIN distribution

\* C11, as amended: the distribution maps each of the seven grades S..F to the
\* sum of the credits of the records with that grade when the sum is positive
\* and has no key for it otherwise; in main_advanced.py P is never a key,
\* whatever P credits the records hold; in 1.py P is a key like the others
C11_DistributionWithoutP ==
    pc = "main" =>
        /\ LedgerOf(heap[original_dist], records, AllGrades \ {"P"})
        /\ "P" \notin DOMAIN heap[original_dist]
        /\ DOMAIN heap[original_dist] \subseteq AllGrades
        /\ LedgerOf(get_grade_distribution_v1(records), records, AllGrades)

\* C11, as claimed: the same for all eight grades, P included
C11_DistributionOfEightGrades ==
    pc = "main" => LedgerOf(heap[original_dist], records, AllGrades)

\* records with credits under P and under another grade, analysed
C11_Witness ==
    /\ pc = "main"
    /\ SumCredits(records, {"P"}) > 0
    /\ \E g \in AllGrades \ {"P"} :
          g \in DOMAIN heap[original_dist] /\ heap[original_dist][g] > 0
    /\ "P" \notin DOMAIN heap[original_dist]
    /\ "P" \in DOMAIN get_grade_distribution_v1(records)

\* a distribution without its P entry
WithoutP(d) == [g \in (DOMAIN d) \ {"P"} |-> d[g]]

\* C12: the CGPA computed from a distribution that holds the P credits of the
\* records (by simulate_improvement of 1.py with no change, by
\* calculate_cgpa_from_distribution of main_advanced.py) is the CGPA of the
\* distribution without its P entry and the CGPA calculate_current_cgpa gives
\* for the records
C12_CgpaIgnoresP ==
    pc = "main" =>
        LET d == get_grade_distribution_v1(records)
            v1 == simulate_improvement_returns_v1(<<d>>, 1, <<>>)
            v2 == calculate_cgpa_from_distribution_returns(d)
        IN /\ v1.status = "ok"
           /\ RatEq(v1.cgpa, new_cgpa_v1(WithoutP(d)))
           /\ RatEq(v1.cgpa, current_cgpa)
           /\ v2.status = "ok"
           /\ RatEq(v2.cgpa, calculate_cgpa_from_distribution(WithoutP(d)))
           /\ RatEq(v2.cgpa, current_cgpa)

\* every record of result has credits >= 0 and a grade of the scale
WellTyped(result) ==
    \A i \in DOMAIN result.rows :
        /\ result.rows[i].credits \in Nat
        /\ result.rows[i].grade \in ValidGrades

\* C13: every record normalization returns (main_advanced.py and 1.py) has
\* credits that are an integer >= 0 and a grade in {S,A,B,C,D,E,F,P}; no
\* record comes from a row whose credits cell is not a number or is negative
C13_RecordsWellTyped ==
    pc = "cleaned" =>
        /\ WellTyped(clean_df)
        /\ WellTyped(clean_df_v1)
        /\ \A i \in DOMAIN clean_df.rows :
              LET n == to_numeric(CellOf(clean_df.rows[i].row, "Credits"))
              IN n.ok /\ n.tenths >= 0

\* the four mandatory columns
Mandatory == {"Course Code", "Course Title", "Credits", "Grade"}

\* row i has an empty or a missing cell in a mandatory column
HasEmptyCell(i) == \E label \in Mandatory : CellOf(i, label) \in {NaN, ""}

\* C14: no record (of main_advanced.py or of 1.py) comes from a data row with
\* an empty or missing cell in one of the four mandatory columns
C14_NoRecordFromEmptyCell ==
    pc = "cleaned" =>
        /\ \A i \in DOMAIN clean_df.rows : ~HasEmptyCell(clean_df.rows[i].row)
        /\ \A i \in DOMAIN clean_df_v1.rows : ~HasEmptyCell(clean_df_v1.rows[i].row)

\* the rows that reach the deduplication of main_advanced.py, and how recent
\* the sort takes each to be: its date, or its place when dates are synthetic
Candidates == IF DateLabel = "" THEN Undated ELSE Dated

RecencyOf(i) == IF DateLabel = "" THEN i ELSE DateOf(i)

\* the same for 1.py, which knows only the label Date, reads dates month
\* first and keeps the rows whose date does not parse
Candidates_v1 ==
    {i \in DataRows :
        /\ WellFormed(i)
        /\ Labelled(raw_df[FirstLabelledRow], "Date") => CellOf(i, "Date") # NaN}

RecencyOf_v1(i) ==
    IF Labelled(raw_df[FirstLabelledRow], "Date")
    THEN to_datetime(CellOf(i, "Date"), FALSE)
    ELSE i

\* row j, of those that share its normalized title, is the most recent
\* to reach deduplication, and has a grade outside the scale
LatestIsInvalid(j, candidates, recency) ==
    /\ j \in candidates
    /\ CellOf(j, "Grade") \notin ValidGrades
    /\ \A k \in candidates \ {j} :
          NormalizedTitleOf(k) = NormalizedTitleOf(j) => recency[k] < recency[j]

NoRecordFor(result, j) ==
    \A i \in DOMAIN result.rows :
        NormalizedTitleOf(result.rows[i].row) # NormalizedTitleOf(j)

\* C18: when the most recent row of a normalized title has a grade outside
\* {S,A,B,C,D,E,F,P}, the output (of main_advanced.py and of 1.py) has no
\* record for that title, whatever older rows of the title there are
C18_FilterAfterDedup ==
    /\ (pc = "cleaned" /\ clean_df.status = "ok") =>
          \A j \in DataRows :
              LatestIsInvalid(j, Candidates, [i \in DataRows |-> RecencyOf(i)])
                  => NoRecordFor(clean_df, j)
    /\ (pc = "cleaned" /\ clean_df_v1.status = "ok") =>
          \A j \in DataRows :
              LatestIsInvalid(j, Candidates_v1, [i \in DataRows |-> RecencyOf_v1(i)])
                  => NoRecordFor(clean_df_v1, j)

\* the most recent row of a title has grade W, an older row of the title has
\* a grade of the scale, and no record has the title
C18_Witness ==
    /\ pc = "cleaned"
    /\ clean_df.status = "ok"
    /\ \E j, k \in DataRows :
          /\ LatestIsInvalid(j, Candidates, [i \in DataRows |-> RecencyOf(i)])
          /\ k \in Candidates \ {j}
          /\ NormalizedTitleOf(k) = NormalizedTitleOf(j)
          /\ CellOf(k, "Grade") \in ValidGrades
          /\ NoRecordFor(clean_df, j)
          /\ NoRecordFor(clean_df_v1, j)

\* the transfers the algebra of the engine is checked on
AlgebraTransfers ==
    {<<f, t, c>> : f \in TransferGrades, t \in TransferGrades,
                   c \in TransferCredits}

\* no grade of one transfer is a grade of the other
Disjoint(a, b) == {a[1], a[2]} \cap {b[1], b[2]} = {}

\* two calls end the same way: both return the same distribution, or both fail
SameOutcome(x, y) ==
    /\ (x.status = "ok") <=> (y.status = "ok")
    /\ x.status = "ok" => x.heap[x.ret] = y.heap[y.ret]

\* C15: on every distribution, two transfers on disjoint grade pairs applied in
\* either order, by one simulate_improvement call or by simulate_and_print,
\* give the same final distribution or fail in both orders
C15_DisjointTransfersCommute ==
    \A a \in AlgebraTransfers :
        \A b \in {x \in AlgebraTransfers : Disjoint(a, x)} :
            /\ SameOutcome(simulate_improvement(heap, improved_distribution, <<a, b>>),
                           simulate_improvement(heap, improved_distribution, <<b, a>>))
            /\ SameOutcome(simulate_and_print(heap, improved_distribution, <<a, b>>),
                           simulate_and_print(heap, improved_distribution, <<b, a>>))

\* after an accepted transfer, a distribution on which two disjoint transfers
\* of positive credits are both accepted, in either order, with one result
C15_Witness ==
    /\ last.kind = "improve"
    /\ last.status = "ok"
    /\ last.op[3] > 0
    /\ \E a, b \in AlgebraTransfers :
          /\ Disjoint(a, b)
          /\ a[3] > 0 /\ b[3] > 0
          /\ a[1] # a[2] /\ b[1] # b[2]
          /\ LET x == simulate_improvement(heap, improved_distribution, <<a, b>>)
                 y == simulate_improvement(heap, improved_distribution, <<b, a>>)
             IN /\ x.status = "ok" /\ y.status = "ok"
                /\ x.heap[x.ret] = y.heap[y.ret]
                /\ x.heap[x.ret] # heap[improved_distribution]

\* the balances of a distribution are all >= 0
NonNegative(d) == \A g \in DOMAIN d : d[g] >= 0

\* the two transfers of all the credits of from_grade: to to_grade, and to
\* from_grade itself
AllTo(d, from_grade, to_grade) == <<from_grade, to_grade, d[from_grade]>>

\* C16: transfers that share a from_grade are order-sensitive: on every
\* distribution with non-negative balances that holds credits under a grade,
\* the transfer of those credits to another grade and the transfer of them to
\* the grade itself are both accepted in one order, while in the other order
\* the second is rejected for insufficient credits
C16_SharedFromOrderSensitive ==
    LET d == heap[improved_distribution]
    IN NonNegative(d) =>
          \A f \in DOMAIN d : \A t \in DOMAIN grade_points \ {f} :
              d[f] > 0 =>
                  LET a == AllTo(d, f, t)
                      b == AllTo(d, f, f)
                      ab == simulate_improvement(heap, improved_distribution, <<a, b>>)
                      ba == simulate_improvement(heap, improved_distribution, <<b, a>>)
                      sab == simulate_and_print(heap, improved_distribution, <<a, b>>)
                      sba == simulate_and_print(heap, improved_distribution, <<b, a>>)
                  IN /\ ab.status = "InsufficientCredits" /\ ab.at = 2
                     /\ ba.status = "ok"
                     /\ sab.status = "InsufficientCredits"
                     /\ sba.status = "ok"

\* a distribution with non-negative balances and credits under a grade, where
\* the two orders end differently
C16_Witness ==
    LET d == heap[improved_distribution]
    IN /\ last.kind = "improve"
       /\ NonNegative(d)
       /\ \E f \in DOMAIN d :
             /\ d[f] > 0
             /\ \E t \in DOMAIN grade_points \ {f} :
                   /\ simulate_improvement(heap, improved_distribution,
                          <<AllTo(d, f, t), AllTo(d, f, f)>>).status # "ok"
                   /\ simulate_improvement(heap, improved_distribution,
                          <<AllTo(d, f, f), AllTo(d, f, t)>>).status = "ok"

\* the errors the simulator loop handles as the rejection of a transfer
TransferErrors == {"InvalidGrade", "InsufficientCredits"}

\* C17: a transfer between two accepted grades, of credits >= 0, entered
\* first in the simulator on a distribution with non-negative balances, is
\* answered with a new distribution or with the invalid-grade or the
\* insufficient-credits error, and the simulator goes on
C17_TransferTotal ==
    (/\ last.kind = "improve"
     /\ last.status # "BadNumber"
     /\ Len(improvement_changes) = 1
     /\ {last.op[1], last.op[2]} \subseteq DOMAIN grade_points
     /\ last.op[3] >= 0
     /\ NonNegative(heap[original_dist]))
        => /\ last.status \in {"ok"} \cup TransferErrors
           /\ pc # "crashed"

====
